---- MODULE Spec2Model ----
(***************************************************************************)
(* Model of json_to_md.py: the recursive renderer convert_json_to_markdown *)
(* and the batch loop of main.  Text is modelled character by character:   *)
(* a string is a sequence of one-character strings, so that headings,      *)
(* labels, indentation and newlines are what the code concatenates.        *)
(***************************************************************************)
EXTENDS Integers, Sequences, FiniteSets, TLC

VARIABLES
    json_data,          \* argument of the renderer call under study
    indent,             \* its indent argument
    markdown,           \* the string the call returned ("" before the call)
    rpc,                \* "call" before the renderer ran, "ret" after
    input_folder_exists,
    entries,            \* the input directory: name -> entry
    max_files_to_process,
    files,              \* the sorted listing main iterates over
    pos,                \* index in files of the next file of the for loop
    processed_count,
    skipped_count,
    outputs,            \* output directory of the run: name -> content
    created,            \* <<input name, output name>> of every output file opened
    log,                \* per-file diagnostics printed so far, in order
    pc                  \* position of main: "start", "loop", "report", "done"

vars == <<json_data, indent, markdown, rpc, input_folder_exists, entries,
          max_files_to_process, files, pos, processed_count, skipped_count,
          outputs, created, log, pc>>

renderVars == <<json_data, indent, markdown, rpc>>
mainVars == <<input_folder_exists, entries, max_files_to_process, files, pos,
              processed_count, skipped_count, outputs, created, log, pc>>

(***************************************************************************)
(* Bounds                                                                  *)
(***************************************************************************)
MaxIndent == 7
MaxWidth == 2
MaxQuota == 5

(***************************************************************************)
(* Characters and Python string methods                                    *)
(***************************************************************************)
NL == "\n"

LowerCase == <<"a","b","c","d","e","f","g","h","i","j","k","l","m",
               "n","o","p","q","r","s","t","u","v","w","x","y","z">>
UpperCase == <<"A","B","C","D","E","F","G","H","I","J","K","L","M",
               "N","O","P","Q","R","S","T","U","V","W","X","Y","Z">>

IsLower(c) == \E i \in 1..Len(LowerCase) : LowerCase[i] = c
IsUpper(c) == \E i \in 1..Len(UpperCase) : UpperCase[i] = c
ToUpper(c) ==
    IF IsLower(c)
    THEN UpperCase[CHOOSE i \in 1..Len(LowerCase) : LowerCase[i] = c]
    ELSE c
ToLower(c) ==
    IF IsUpper(c)
    THEN LowerCase[CHOOSE i \in 1..Len(UpperCase) : UpperCase[i] = c]
    ELSE c

\* str.replace('_', ' ')
ReplaceUnderscore(s) == [i \in 1..Len(s) |-> IF s[i] = "_" THEN " " ELSE s[i]]

\* str.title(): a cased character is upper-cased when the previous character
\* is not cased and lower-cased when it is; other characters are kept.
IsCased(c) == IsLower(c) \/ IsUpper(c)
TitleCase(s) ==
    [i \in 1..Len(s) |->
        IF ~IsCased(s[i]) THEN s[i]
        ELSE IF i > 1 /\ IsCased(s[i-1]) THEN ToLower(s[i])
        ELSE ToUpper(s[i])]

\* key.replace('_', ' ').title()
Humanize(key) == TitleCase(ReplaceUnderscore(key))

Smaller(a, b) == IF a < b THEN a ELSE b

RECURSIVE Repeat(_, _)
Repeat(s, n) == IF n <= 0 THEN <<>> ELSE s \o Repeat(s, n - 1)

RECURSIVE Digits(_)
Digits(n) ==
    LET d == <<"0","1","2","3","4","5","6","7","8","9">>[(n % 10) + 1]
    IN  IF n < 10 THEN <<d>> ELSE Digits(n \div 10) \o <<d>>

(***************************************************************************)
(* JSON values as json.load returns them                                   *)
(***************************************************************************)
JStr(s) == [t |-> "str", v |-> s]
JInt(n) == [t |-> "int", v |-> n]
JBool(b) == [t |-> "bool", v |-> b]
JNull == [t |-> "null", v |-> <<>>]
JDict(pairs) == [t |-> "dict", v |-> pairs]   \* pairs in insertion order
JList(items) == [t |-> "list", v |-> items]

IsNested(value) == value.t \in {"dict", "list"}

\* f"{value}" of a scalar: str(value)
PyStr(value) ==
    CASE value.t = "str" -> value.v
      [] value.t = "int" ->
            IF value.v < 0 THEN <<"-">> \o Digits(0 - value.v) ELSE Digits(value.v)
      [] value.t = "bool" ->
            IF value.v THEN <<"T","r","u","e">> ELSE <<"F","a","l","s","e">>
      [] value.t = "null" -> <<"N","o","n","e">>

(***************************************************************************)
(* convert_json_to_markdown                                                *)
(***************************************************************************)
k_full_description ==
    <<"f","u","l","l","_","d","e","s","c","r","i","p","t","i","o","n">>
k_claims == <<"c","l","a","i","m","s">>
k_background == <<"b","a","c","k","g","r","o","u","n","d">>
k_decision == <<"d","e","c","i","s","i","o","n">>
k_title == <<"t","i","t","l","e">>
k_a_b == <<"a","_","b">>

FIELDS_TO_SKIP == {k_full_description, k_claims, k_background}

\* Mutant: the exclusion is applied at the top level only.
IsSkippedTopOnly(key, ind) == ind = 0 /\ key \in FIELDS_TO_SKIP
\* if key in FIELDS_TO_SKIP: continue
IsSkipped(key, ind) == key \in FIELDS_TO_SKIP

\* Mutant: the level is not capped.
HeadingLevelUncapped(ind) == ind + 1
\* heading_level = min(6, indent + 1)
HeadingLevel(ind) == IF ind + 1 < 6 THEN ind + 1 ELSE 6

heading_prefix(ind) == Repeat(<<"#">>, HeadingLevel(ind))
indent_str(ind) == Repeat(<<" "," "," "," ">>, ind)

\* Mutant: the newline is added before nested sections only.
SpacingNestedOnly(ind, value) == IsNested(value)
\* if indent == 0 or (indent > 0 and isinstance(value, (dict, list)))
Spacing(ind, value) == ind = 0 \/ (ind > 0 /\ IsNested(value))

\* Mutant: the mapping is walked from its last key to its first.
KeyOrderReversed(pairs) == [i \in 1..Len(pairs) |-> pairs[Len(pairs) + 1 - i]]
\* for key, value in json_data.items()
KeyOrder(pairs) == pairs

HeadingLine(key, ind) ==
    indent_str(ind) \o heading_prefix(ind) \o <<" ">> \o Humanize(key) \o <<NL>>
LabelLine(key, value, ind) ==
    indent_str(ind) \o <<"*","*">> \o Humanize(key) \o <<":","*","*"," ">>
        \o PyStr(value) \o <<NL>>

RECURSIVE convert_json_to_markdown(_, _)
RECURSIVE ConvertItems(_, _, _)
RECURSIVE ConvertElements(_, _, _)

\* the body of the for loop over json_data.items(), from the i-th pair on
ConvertItems(pairs, i, ind) ==
    IF i > Len(pairs) THEN <<>>
    ELSE LET key == pairs[i][1]
             value == pairs[i][2]
         IN  IF IsSkipped(key, ind) THEN ConvertItems(pairs, i + 1, ind)
             ELSE (IF Spacing(ind, value) THEN <<NL>> ELSE <<>>)
                  \o (IF IsNested(value)
                      THEN HeadingLine(key, ind)
                           \o convert_json_to_markdown(value, ind + 1)
                      ELSE LabelLine(key, value, ind))
                  \o ConvertItems(pairs, i + 1, ind)

\* the body of the for loop over the list, from the i-th element on
ConvertElements(items, i, ind) ==
    IF i > Len(items) THEN <<>>
    ELSE indent_str(ind) \o <<"-"," ">>
         \o (IF IsNested(items[i])
             THEN convert_json_to_markdown(items[i], ind + 1)
             ELSE PyStr(items[i]) \o <<NL>>)
         \o ConvertElements(items, i + 1, ind)

convert_json_to_markdown(data, ind) ==
    IF data.t = "dict" THEN ConvertItems(KeyOrder(data.v), 1, ind)
    ELSE IF data.t = "list"
         THEN (IF ind > 0 THEN <<NL>> ELSE <<>>) \o ConvertElements(data.v, 1, ind)
         ELSE PyStr(data) \o <<NL>>

(***************************************************************************)
(* The renderer under study: JSON values of bounded width and nesting,     *)
(* rendered at every indent the recursion can reach within MaxIndent.      *)
(***************************************************************************)
s_Widget == <<"W","i","d","g","e","t">>
s_secret_text == <<"s","e","c","r","e","t"," ","t","e","x","t">>

Scalars == {JStr(s_Widget), JInt(42), JNull}
Leaves == Scalars \cup {JDict(<<>>), JList(<<>>)}
GenKeys == {k_title, k_claims, k_a_b}

SeqsUpTo(S, n) == UNION {[1..m -> S] : m \in 0..n}
DistinctKeys(pairs) ==
    \A i, j \in 1..Len(pairs) : pairs[i][1] = pairs[j][1] => i = j

Level1 ==
    Leaves
    \cup {JDict(p) : p \in {q \in SeqsUpTo(GenKeys \X Leaves, MaxWidth) : DistinctKeys(q)}}
    \cup {JList(p) : p \in SeqsUpTo(Leaves, MaxWidth)}

\* one more level of nesting around v: as a list element, as the first field,
\* as a later field, and below an excluded key
Wrap(v) ==
    { JList(<<v, JInt(42)>>),
      JDict(<<<<k_a_b, v>>, <<k_title, JStr(s_Widget)>>>>),
      JDict(<<<<k_title, JNull>>, <<k_background, v>>, <<k_a_b, v>>>>) }

Level2 == UNION {Wrap(v) : v \in Level1}
Level3 == UNION {Wrap(v) : v \in Level2}

ExampleRecord ==
    JDict(<< <<k_decision, JStr(<<"A","C","C","E","P","T","E","D">>)>>,
             <<k_title, JStr(s_Widget)>>,
             <<k_claims, JStr(s_secret_text)>> >>)

\* artificially deep documents: a chain of mappings, and mappings and
\* sequences in alternation
RECURSIVE DeepDict(_)
DeepDict(n) ==
    IF n = 0 THEN JDict(<<<<k_title, JStr(s_Widget)>>>>)
    ELSE JDict(<<<<k_title, JInt(42)>>, <<k_a_b, DeepDict(n - 1)>>>>)
RECURSIVE DeepMixed(_)
DeepMixed(n) ==
    IF n = 0 THEN JList(<<JNull>>)
    ELSE JDict(<<<<k_a_b, JList(<<DeepMixed(n - 1), JDict(<<<<k_a_b, JList(<<>>)>>>>)>>)>>>>)

\* rendered at every indent of 0..MaxIndent, as the recursion calls it
ShallowInputs ==
    Level1
    \cup {ExampleRecord, JBool(TRUE), JBool(FALSE), JInt(-7),
          JDict(<<<<k_full_description, JStr(s_secret_text)>>>>)}
\* rendered at indent 0, as main calls it
NestedInputs ==
    Level2 \cup Level3
    \cup {DeepDict(n) : n \in 1..(MaxIndent + 1)}
    \cup {DeepMixed(n) : n \in 1..(MaxIndent + 1)}

InitRender ==
    /\ \/ json_data \in ShallowInputs /\ indent \in 0..MaxIndent
       \/ json_data \in NestedInputs /\ indent = 0
    /\ markdown = <<>>
    /\ rpc = "call"
    /\ input_folder_exists = TRUE
    /\ entries = <<>>
    /\ max_files_to_process = 0
    /\ files = <<>>
    /\ pos = 1
    /\ processed_count = 0
    /\ skipped_count = 0
    /\ outputs = <<>>
    /\ created = {}
    /\ log = <<>>
    /\ pc = "idle"

\* markdown = convert_json_to_markdown(json_data, indent)
Render ==
    /\ rpc = "call"
    /\ markdown' = convert_json_to_markdown(json_data, indent)
    /\ rpc' = "ret"
    /\ UNCHANGED <<json_data, indent>>
    /\ UNCHANGED mainVars

NextRender == Render

SpecRender == InitRender /\ [][NextRender]_vars

(***************************************************************************)
(* main: file names, directory entries and documents                       *)
(***************************************************************************)
ext_json == <<".","j","s","o","n">>
ext_md == <<".","m","d">>
n_a_json == <<"a">> \o ext_json
n_b_json == <<"b">> \o ext_json
n_dot_json == ext_json                      \* a file named ".json"
n_dot_json_json == ext_json \o ext_json     \* a file named ".json.json"
n_a_txt == <<"a",".","t","x","t">>

\* code points of the characters of the file names
Ord(c) ==
    CASE c = "." -> 46 [] c = "a" -> 97 [] c = "b" -> 98 [] c = "d" -> 100
      [] c = "j" -> 106 [] c = "m" -> 109 [] c = "n" -> 110 [] c = "o" -> 111
      [] c = "s" -> 115 [] c = "t" -> 116 [] c = "x" -> 120

\* str.__lt__: the first differing character decides, a proper prefix is less
StrLess(a, b) ==
    \/ \E i \in 1..Smaller(Len(a), Len(b)) :
          /\ \A k \in 1..(i-1) : a[k] = b[k]
          /\ Ord(a[i]) < Ord(b[i])
    \/ Len(a) < Len(b) /\ \A k \in 1..Len(a) : a[k] = b[k]

\* f.endswith('.json')
EndsWithJson(f) ==
    Len(f) >= Len(ext_json) /\ SubSeq(f, Len(f) - Len(ext_json) + 1, Len(f)) = ext_json

\* Mutant: the listing is processed in descending name order.
SortDescending(S) ==
    [i \in 1..Cardinality(S) |->
        CHOOSE f \in S : Cardinality({g \in S : StrLess(f, g)}) = i - 1]
\* files.sort()
SortFiles(S) ==
    [i \in 1..Cardinality(S) |->
        CHOOSE f \in S : Cardinality({g \in S : StrLess(g, f)}) = i - 1]

\* os.path.splitext(filename)[0]: the name up to its last dot, or the whole
\* name when it has no dot or only dots before the last one
SplitextRoot(f) ==
    LET dots == {i \in 1..Len(f) : f[i] = "."}
    IN  IF dots = {} THEN f
        ELSE LET dotIndex == CHOOSE i \in dots : \A j \in dots : j <= i
             IN  IF \E k \in 1..(dotIndex - 1) : f[k] # "."
                 THEN SubSeq(f, 1, dotIndex - 1)
                 ELSE f

\* markdown_filename = os.path.splitext(filename)[0] + ".md"
MarkdownFilename(f) == SplitextRoot(f) \o ext_md

s_ACCEPTED == <<"A","C","C","E","P","T","E","D">>
s_REJECTED == <<"R","E","J","E","C","T","E","D">>
s_PENDING == <<"P","E","N","D","I","N","G">>
s_accepted == <<"a","c","c","e","p","t","e","d">>
\* a lone surrogate, as json.load returns for the JSON string "\ud800"
c_surrogate == "U+D800"

docAccepted == ExampleRecord
docRejected ==
    JDict(<< <<k_title, JStr(s_Widget)>>, <<k_decision, JStr(s_REJECTED)>> >>)
docPending ==
    JDict(<< <<k_decision, JStr(s_PENDING)>>, <<k_title, JStr(s_Widget)>> >>)
docNoDecision == JDict(<< <<k_title, JStr(s_Widget)>> >>)
docLowerCase == JDict(<< <<k_decision, JStr(s_accepted)>> >>)
docList == JList(<<JInt(42)>>)
docSurrogate ==
    JDict(<< <<k_decision, JStr(s_ACCEPTED)>>, <<k_title, JStr(<<c_surrogate>>)>> >>)

\* what os.listdir names: a regular file holding JSON text or other text, a
\* directory, or a dangling symbolic link
FileOf(doc) == [kind |-> "file", json |-> <<doc>>]
Malformed == [kind |-> "file", json |-> <<>>]
Directory == [kind |-> "dir", json |-> <<>>]
Dangling == [kind |-> "dangling", json |-> <<>>]

Documents ==
    {docAccepted, docRejected, docPending, docNoDecision, docLowerCase, docList,
     docSurrogate}
AnyEntry == {FileOf(d) : d \in Documents} \cup {Malformed, Directory, Dangling}
FewEntries == {FileOf(docAccepted), FileOf(docPending), Malformed}

EntriesOf(f) ==
    IF f \in {n_a_json, n_b_json} THEN AnyEntry
    ELSE IF f = n_a_txt THEN {FileOf(docAccepted)}
    ELSE FewEntries
Names == {n_a_json, n_b_json, n_dot_json, n_dot_json_json, n_a_txt}
InputFolders ==
    UNION {{e \in [D -> AnyEntry] : \A f \in D : e[f] \in EntriesOf(f)} : D \in SUBSET Names}

\* json_data.get('decision')
GetDecision(doc) ==
    IF \E i \in 1..Len(doc.v) : doc.v[i][1] = k_decision
    THEN doc.v[CHOOSE i \in 1..Len(doc.v) : doc.v[i][1] = k_decision][2]
    ELSE JNull

\* decision in ["ACCEPTED", "REJECTED"]
DecisionAllowed(decision) ==
    decision.t = "str" /\ decision.v \in {s_ACCEPTED, s_REJECTED}

\* Mutant: one file more than the quota is processed.
QuotaReachedLate(count, quota) == count > quota
\* if processed_count >= max_files_to_process
QuotaReached(count, quota) == count >= quota

\* f.write(markdown_content) with encoding='utf-8' raises UnicodeEncodeError
Encodable(text) == \A i \in 1..Len(text) : text[i] # c_surrogate

\* one entry per inspected file: "converted", "skipped", or the error printed
\* for it (the message of an unexpected error names the exception)
LogEntry(f, what) == [file |-> f, outcome |-> what]
WriteFile(dir, name, content) ==
    [n \in DOMAIN dir \cup {name} |-> IF n = name THEN content ELSE dir[n]]

(***************************************************************************)
(* main                                                                    *)
(***************************************************************************)
Init ==
    /\ input_folder_exists \in BOOLEAN
    /\ entries \in InputFolders
    /\ ~input_folder_exists => entries = <<>>
    /\ max_files_to_process \in 0..MaxQuota
    /\ files = <<>>
    /\ pos = 1
    /\ processed_count = 0
    /\ skipped_count = 0
    /\ outputs = <<>>
    /\ created = {}
    /\ log = <<>>
    /\ pc = "start"
    /\ json_data = JNull
    /\ indent = 0
    /\ markdown = <<>>
    /\ rpc = "idle"

\* files = [f for f in os.listdir(input_path) if f.endswith('.json')]; files.sort()
ListFiles ==
    /\ pc = "start"
    /\ input_folder_exists
    /\ files' = SortFiles({f \in DOMAIN entries : EndsWithJson(f)})
    /\ pc' = "loop"
    /\ UNCHANGED <<input_folder_exists, entries, max_files_to_process, pos,
                   processed_count, skipped_count, outputs, created, log>>
    /\ UNCHANGED renderVars

\* os.listdir raises FileNotFoundError: the outer handler, then the report
ListFilesNotFound ==
    /\ pc = "start"
    /\ ~input_folder_exists
    /\ pc' = "report"
    /\ UNCHANGED <<input_folder_exists, entries, max_files_to_process, files, pos,
                   processed_count, skipped_count, outputs, created, log>>
    /\ UNCHANGED renderVars

InLoop == pc = "loop" /\ pos <= Len(files)
Attempting == InLoop /\ ~QuotaReached(processed_count, max_files_to_process)
Current == entries[files[pos]]

\* what every per-file outcome but a conversion leaves alone
NextFile(what) ==
    /\ log' = Append(log, LogEntry(files[pos], what))
    /\ pos' = pos + 1
    /\ UNCHANGED <<input_folder_exists, entries, max_files_to_process, files, pc>>
    /\ UNCHANGED renderVars

\* the for loop is exhausted
LoopEnd ==
    /\ pc = "loop"
    /\ pos > Len(files)
    /\ pc' = "report"
    /\ UNCHANGED <<input_folder_exists, entries, max_files_to_process, files, pos,
                   processed_count, skipped_count, outputs, created, log>>
    /\ UNCHANGED renderVars

\* if processed_count >= max_files_to_process: break
LoopBreak ==
    /\ InLoop
    /\ QuotaReached(processed_count, max_files_to_process)
    /\ pc' = "report"
    /\ UNCHANGED <<input_folder_exists, entries, max_files_to_process, files, pos,
                   processed_count, skipped_count, outputs, created, log>>
    /\ UNCHANGED renderVars

\* open(json_filepath) raises FileNotFoundError
OpenNotFound ==
    /\ Attempting
    /\ Current.kind = "dangling"
    /\ NextFile("error_not_found")
    /\ UNCHANGED <<processed_count, skipped_count, outputs, created>>

\* open(json_filepath) raises another OSError (the entry is a directory)
OpenError ==
    /\ Attempting
    /\ Current.kind = "dir"
    /\ NextFile("error_unexpected_open_input")
    /\ UNCHANGED <<processed_count, skipped_count, outputs, created>>

\* json.load raises JSONDecodeError
DecodeError ==
    /\ Attempting
    /\ Current.kind = "file" /\ Current.json = <<>>
    /\ NextFile("error_decode")
    /\ UNCHANGED <<processed_count, skipped_count, outputs, created>>

Parsed == Current.kind = "file" /\ Current.json # <<>>
Doc == Current.json[1]

\* json_data.get raises AttributeError: the document is not a mapping
NotAMapping ==
    /\ Attempting
    /\ Parsed /\ Doc.t # "dict"
    /\ NextFile("error_unexpected_attribute")
    /\ UNCHANGED <<processed_count, skipped_count, outputs, created>>

\* the else branch: skipped_count += 1
Skip ==
    /\ Attempting
    /\ Parsed /\ Doc.t = "dict"
    /\ ~DecisionAllowed(GetDecision(Doc))
    /\ skipped_count' = skipped_count + 1
    /\ NextFile("skipped")
    /\ UNCHANGED <<processed_count, outputs, created>>

Accepted == Attempting /\ Parsed /\ Doc.t = "dict" /\ DecisionAllowed(GetDecision(Doc))

\* convert_json_to_markdown raises (RecursionError, MemoryError)
RenderError ==
    /\ Accepted
    /\ NextFile("error_unexpected_render")
    /\ UNCHANGED <<processed_count, skipped_count, outputs, created>>

\* open(markdown_filepath, 'w') raises OSError: no file is created
OutputOpenError ==
    /\ Accepted
    /\ NextFile("error_unexpected_open_output")
    /\ UNCHANGED <<processed_count, skipped_count, outputs, created>>

\* open(markdown_filepath, 'w') creates or truncates the file, then f.write
\* raises UnicodeEncodeError before any byte is written
WriteError ==
    /\ Accepted
    /\ ~Encodable(convert_json_to_markdown(Doc, 0))
    /\ outputs' = WriteFile(outputs, MarkdownFilename(files[pos]), <<>>)
    /\ created' = created \cup {<<files[pos], MarkdownFilename(files[pos])>>}
    /\ NextFile("error_unexpected_encode")
    /\ UNCHANGED <<processed_count, skipped_count>>

\* the file is rendered and written: processed_count += 1
Convert ==
    /\ Accepted
    /\ Encodable(convert_json_to_markdown(Doc, 0))
    /\ outputs' = WriteFile(outputs, MarkdownFilename(files[pos]),
                            convert_json_to_markdown(Doc, 0))
    /\ created' = created \cup {<<files[pos], MarkdownFilename(files[pos])>>}
    /\ processed_count' = processed_count + 1
    /\ NextFile("converted")
    /\ UNCHANGED skipped_count

\* print(f"\nFinished processing. Converted ... Skipped ...")
Report ==
    /\ pc = "report"
    /\ pc' = "done"
    /\ UNCHANGED <<input_folder_exists, entries, max_files_to_process, files, pos,
                   processed_count, skipped_count, outputs, created, log>>
    /\ UNCHANGED renderVars

Next ==
    \/ ListFiles
    \/ ListFilesNotFound
    \/ LoopEnd
    \/ LoopBreak
    \/ OpenNotFound
    \/ OpenError
    \/ DecodeError
    \/ NotAMapping
    \/ Skip
    \/ RenderError
    \/ OutputOpenError
    \/ WriteError
    \/ Convert
    \/ Report

Spec == Init /\ [][Next]_vars

(***************************************************************************)
(* Reading a rendered document: its lines, headings and labels             *)
(***************************************************************************)
LineStarts(s) == {i \in 1..Len(s) : i = 1 \/ s[i-1] = NL}
LineEnd(s, i) ==
    IF \E j \in i..Len(s) : s[j] = NL
    THEN CHOOSE j \in i..Len(s) : s[j] = NL /\ \A k \in i..(j-1) : s[k] # NL
    ELSE Len(s) + 1
LineAt(s, i) == SubSeq(s, i, LineEnd(s, i) - 1)
Lines(s) == {LineAt(s, i) : i \in LineStarts(s)}
BlankLineStarts(s) == {i \in LineStarts(s) : s[i] = NL}

LeadingSpaces(l) ==
    CHOOSE n \in 0..Len(l) :
        /\ \A k \in 1..n : l[k] = " "
        /\ (n = Len(l) \/ l[n+1] # " ")
HashRun(l) ==
    LET n == LeadingSpaces(l)
    IN  CHOOSE m \in 0..(Len(l) - n) :
            /\ \A k \in 1..m : l[n+k] = "#"
            /\ (n + m = Len(l) \/ l[n+m+1] # "#")
IsHeadingLine(l) ==
    LET n == LeadingSpaces(l)
        m == HashRun(l)
    IN  m >= 1 /\ n + m < Len(l) /\ l[n+m+1] = " "
HeadingLineStarts(s) == {i \in LineStarts(s) : IsHeadingLine(LineAt(s, i))}
HeadingDepth(l) == LeadingSpaces(l) \div 4

Contains(s, sub) ==
    \E i \in 1..(Len(s) - Len(sub) + 1) : SubSeq(s, i, i + Len(sub) - 1) = sub
CountChar(s, c) == Cardinality({i \in 1..Len(s) : s[i] = c})

RECURSIVE SumSeq(_)
SumSeq(q) == IF Len(q) = 0 THEN 0 ELSE Head(q) + SumSeq(Tail(q))

\* the labels the specification gives the keys of the model
ExpectedLabel(key) ==
    CASE key = k_title -> <<"T","i","t","l","e">>
      [] key = k_a_b -> <<"A"," ","B">>
      [] key = k_decision -> <<"D","e","c","i","s","i","o","n">>
      [] key = k_claims -> <<"C","l","a","i","m","s">>
      [] key = k_background -> <<"B","a","c","k","g","r","o","u","n","d">>
      [] key = k_full_description ->
            <<"F","u","l","l"," ","D","e","s","c","r","i","p","t","i","o","n">>
ExcludedLabels ==
    {ExpectedLabel(k_claims), ExpectedLabel(k_background),
     ExpectedLabel(k_full_description)}

\* the value with every excluded key, and all below it, removed
RECURSIVE Prune(_)
Prune(v) ==
    IF v.t = "dict"
    THEN LET kept == SelectSeq(v.v, LAMBDA p : p[1] \notin FIELDS_TO_SKIP)
         IN  JDict([i \in 1..Len(kept) |-> <<kept[i][1], Prune(kept[i][2])>>])
    ELSE IF v.t = "list" THEN JList([i \in 1..Len(v.v) |-> Prune(v.v[i])])
    ELSE v

HasExcludedKey(v) == Prune(v) # v

\* the number of keys of v, at any depth, that open a nested section
RECURSIVE NestedKeys(_)
NestedKeys(v) ==
    IF v.t = "dict"
    THEN SumSeq([i \in 1..Len(v.v) |->
            IF v.v[i][1] \in FIELDS_TO_SKIP \/ ~IsNested(v.v[i][2]) THEN 0
            ELSE 1 + NestedKeys(v.v[i][2])])
    ELSE IF v.t = "list" THEN SumSeq([i \in 1..Len(v.v) |-> NestedKeys(v.v[i])])
    ELSE 0

(***************************************************************************)
(* C1: excluded keys                                                       *)
(***************************************************************************)
\* C1: no excluded key produces a heading or a label in the rendered
\* document, and the document is the one of the value with the excluded keys
\* and everything below them removed, wherever the key sits (in a nested
\* mapping, in a mapping that is an element of a sequence, or of a sequence
\* in a sequence).
Thm_C1_ExcludedNeverRendered ==
    rpc = "ret" =>
        /\ \A lab \in ExcludedLabels : ~Contains(markdown, lab)
        /\ markdown = convert_json_to_markdown(Prune(json_data), indent)

Wit_C1_ExcludedInSequenceOfSequence ==
    /\ rpc = "ret"
    /\ indent = 0
    /\ json_data.t = "list" /\ Len(json_data.v) >= 1
    /\ json_data.v[1].t = "list" /\ Len(json_data.v[1].v) >= 1
    /\ json_data.v[1].v[1].t = "dict"
    /\ \E i \in 1..Len(json_data.v[1].v[1].v) :
          /\ json_data.v[1].v[1].v[i][1] \in FIELDS_TO_SKIP
          /\ IsNested(json_data.v[1].v[1].v[i][2])
    /\ Len(Prune(json_data.v[1].v[1]).v) >= 1
    /\ Len(markdown) > 0

(***************************************************************************)
(* C2: heading levels                                                      *)
(***************************************************************************)
\* C2: every heading line of the rendered document, for a key at depth d
\* (the line is indented by d indentation units), carries min(6, d + 1)
\* heading markers; the level is never above 6 and never decreases with the
\* depth; every key that opens a nested section has its heading line.
Thm_C2_HeadingLevel ==
    rpc = "ret" =>
        /\ \A i \in HeadingLineStarts(markdown) :
              LET l == LineAt(markdown, i)
              IN  /\ LeadingSpaces(l) % 4 = 0
                  /\ HashRun(l) = Smaller(6, HeadingDepth(l) + 1)
                  /\ HashRun(l) <= 6
        /\ \A i, j \in HeadingLineStarts(markdown) :
              HeadingDepth(LineAt(markdown, i)) <= HeadingDepth(LineAt(markdown, j))
                  => HashRun(LineAt(markdown, i)) <= HashRun(LineAt(markdown, j))
        /\ Cardinality(HeadingLineStarts(markdown)) = NestedKeys(json_data)

Wit_C2_CappedHeading ==
    /\ rpc = "ret"
    /\ indent = 0
    /\ \E i, j \in HeadingLineStarts(markdown) :
          /\ HeadingDepth(LineAt(markdown, i)) = 5
          /\ HeadingDepth(LineAt(markdown, j)) >= 6
          /\ HashRun(LineAt(markdown, j)) = 6

(***************************************************************************)
(* C9: what a mapping renders to                                           *)
(***************************************************************************)
RECURSIVE ConcatAll(_)
ConcatAll(q) == IF Len(q) = 0 THEN <<>> ELSE Head(q) \o ConcatAll(Tail(q))

Spaces(n) == [i \in 1..n |-> " "]
Hashes(n) == [i \in 1..n |-> "#"]

\* what the specification has a key of a mapping at depth d emit
ExpectedPiece(key, value, d) ==
    IF IsNested(value)
    THEN Spaces(4 * d) \o Hashes(Smaller(6, d + 1)) \o <<" ">> \o ExpectedLabel(key)
            \o <<NL>> \o convert_json_to_markdown(value, d + 1)
    ELSE Spaces(4 * d) \o <<"*","*">> \o ExpectedLabel(key) \o <<":","*","*"," ">>
            \o PyStr(value) \o <<NL>>

KeptPairs(v) == SelectSeq(v.v, LAMBDA p : p[1] \notin FIELDS_TO_SKIP)

\* C9: the rendering of a mapping at depth d is, for its non-excluded keys in
\* insertion order, the concatenation of one piece per key: a heading line
\* with the humanized key followed by the rendering of the value at depth
\* d + 1 when the value is a mapping or sequence, and otherwise one label
\* line "**Key:** text"; each piece is preceded by at most one separator
\* newline.  The example record renders a line "**Title:** Widget" and its
\* rendering does not contain "secret text".
Thm_C9_MappingPieces ==
    (rpc = "ret" /\ json_data.t = "dict") =>
        LET kept == KeptPairs(json_data)
            n == Len(kept)
        IN  /\ \E sep \in [1..n -> {<<>>, <<NL>>}] :
                 markdown = ConcatAll([k \in 1..n |->
                     sep[k] \o ExpectedPiece(kept[k][1], kept[k][2], indent)])
            /\ (json_data = ExampleRecord /\ indent = 0) =>
                 /\ <<"*","*","T","i","t","l","e",":","*","*"," ",
                      "W","i","d","g","e","t">> \in Lines(markdown)
                 /\ ~Contains(markdown, s_secret_text)

Wit_C9_HeadingAndLabel ==
    /\ rpc = "ret"
    /\ json_data.t = "dict"
    /\ Len(json_data.v) > Len(KeptPairs(json_data))
    /\ \E i, j \in 1..Len(KeptPairs(json_data)) :
          /\ i < j
          /\ ~IsNested(KeptPairs(json_data)[i][2])
          /\ IsNested(KeptPairs(json_data)[j][2])
          /\ Len(KeptPairs(json_data)[j][2].v) > 0
    /\ Len(markdown) > 0

(***************************************************************************)
(* C8: separator newlines                                                  *)
(***************************************************************************)
IsHeadingAt(s, i) == i \in LineStarts(s) /\ IsHeadingLine(LineAt(s, i))

RECURSIVE ExpectedNewlines(_, _)
ExpectedNewlines(v, d) ==
    IF v.t = "dict"
    THEN SumSeq([i \in 1..Len(v.v) |->
            IF v.v[i][1] \in FIELDS_TO_SKIP THEN 0
            ELSE IF IsNested(v.v[i][2])
                 THEN 2 + ExpectedNewlines(v.v[i][2], d + 1)
                 ELSE IF d = 0 THEN 2 ELSE 1])
    ELSE IF v.t = "list"
         THEN (IF d > 0 THEN 1 ELSE 0)
              + SumSeq([i \in 1..Len(v.v) |->
                    IF IsNested(v.v[i]) THEN ExpectedNewlines(v.v[i], d + 1) ELSE 1])
         ELSE 1

ScalarOnlyDict(v) ==
    /\ v.t = "dict"
    /\ \A i \in 1..Len(v.v) : ~IsNested(v.v[i][2])

JsonFiles == {f \in DOMAIN entries : EndsWithJson(f)}

\* the acceptance predicate of the specification: the content parses as
\* JSON and its decision is "ACCEPTED" or "REJECTED"
ParsesAsJson(e) == e.kind = "file" /\ e.json # <<>>
SatisfiesAcceptance(e) ==
    /\ ParsesAsJson(e)
    /\ e.json[1].t = "dict"
    /\ \E i \in 1..Len(e.json[1].v) :
          /\ e.json[1].v[i][1] = k_decision
          /\ e.json[1].v[i][2] \in {JStr(s_ACCEPTED), JStr(s_REJECTED)}

IsErrorOutcome(o) == o \notin {"converted", "skipped"}
EnvironmentFaults == {"error_unexpected_render", "error_unexpected_open_output"}
LogIndexes(outcomes) == {i \in 1..Len(log) : log[i].outcome \in outcomes}
Inspected == {log[i].file : i \in 1..Len(log)}
OutputsOf(f) == {c[2] : c \in {d \in created : d[1] = f}}

\* the name without its .json extension
BaseName(f) == SubSeq(f, 1, Len(f) - Len(ext_json))

Ascending(q) == \A i, j \in 1..Len(q) : i < j => StrLess(q[i], q[j])

\* the accepted files in ascending name order, and the first m of them
AcceptedBefore(i) ==
    {j \in 1..(i - 1) : SatisfiesAcceptance(entries[files[j]])}
FirstAccepted(m) ==
    {files[i] : i \in {j \in 1..Len(files) :
        /\ SatisfiesAcceptance(entries[files[j]])
        /\ Cardinality(AcceptedBefore(j)) < m}}
\* the position at which the loop stops inspecting: behind the file that
\* reaches the quota, or behind the last file
StopPosition ==
    IF \E i \in 1..(Len(files) + 1) :
          Cardinality(AcceptedBefore(i)) >= max_files_to_process
    THEN CHOOSE i \in 1..(Len(files) + 1) :
          /\ Cardinality(AcceptedBefore(i)) >= max_files_to_process
          /\ \A j \in 1..(i - 1) :
                Cardinality(AcceptedBefore(j)) < max_files_to_process
    ELSE Len(files) + 1

(***************************************************************************)
(* C3: the quota                                                           *)
(***************************************************************************)
\* C3: processed_count never exceeds a positive quota, and from a state in
\* which processed_count has reached the quota no step inspects a file (the
\* log of attempts does not grow), writes or creates an output file, or
\* changes skipped_count or processed_count.
Thm_C3_QuotaStopsTheLoop ==
    /\ [](max_files_to_process > 0 => processed_count <= max_files_to_process)
    /\ [][processed_count >= max_files_to_process =>
            /\ log' = log
            /\ pos' = pos
            /\ outputs' = outputs
            /\ created' = created
            /\ skipped_count' = skipped_count
            /\ processed_count' = processed_count]_vars

Wit_C3_QuotaReachedWithFilesLeft ==
    /\ pc = "done"
    /\ max_files_to_process >= 1
    /\ processed_count = max_files_to_process
    /\ pos <= Len(files)
    /\ ~SatisfiesAcceptance(entries[files[pos]])
    /\ ParsesAsJson(entries[files[pos]])

(***************************************************************************)
(* C10: the order of inspection                                            *)
(***************************************************************************)
\* C10: the listing main iterates over is the .json files of the input
\* directory in ascending name order; the files inspected so far are the
\* first pos - 1 of it, each once and in that order; and a run in which no
\* per-file error occurred ends with output files written for exactly the
\* first min(quota, K) accepted files and with skipped_count equal to the
\* number of non-accepted files before the position at which the quota was
\* reached (all of them when it never was).
Thm_C10_AscendingOrder ==
    /\ pc \in {"loop", "report", "done"} /\ input_folder_exists =>
          /\ {files[i] : i \in 1..Len(files)} = JsonFiles
          /\ Len(files) = Cardinality(JsonFiles)
          /\ Ascending(files)
    /\ Len(log) = pos - 1
    /\ \A i \in 1..Len(log) : log[i].file = files[i]
    /\ (pc = "done" /\ \A i \in 1..Len(log) : ~IsErrorOutcome(log[i].outcome)) =>
          LET K == Cardinality(AcceptedBefore(Len(files) + 1))
          IN  /\ {c[1] : c \in created}
                    = FirstAccepted(Smaller(max_files_to_process, K))
              /\ DOMAIN outputs = {c[2] : c \in created}
              /\ Cardinality(DOMAIN outputs) <= Smaller(max_files_to_process, K)
              /\ skipped_count =
                    Cardinality({j \in 1..(StopPosition - 1) :
                        ~SatisfiesAcceptance(entries[files[j]])})

Wit_C10_QuotaCutsTheOrder ==
    /\ pc = "done"
    /\ \A i \in 1..Len(log) : ~IsErrorOutcome(log[i].outcome)
    /\ Len(files) = 4
    /\ max_files_to_process = 1
    /\ processed_count = 1
    /\ skipped_count = 2
    /\ pos = 4

(***************************************************************************)
(* C4: the number of output files                                          *)
(***************************************************************************)
\* C4 as stated: with K the number of .json files that satisfy the
\* acceptance predicate, a run (in which neither the renderer nor the
\* opening of an output file failed) ends with K output files and
\* processed_count = K when quota >= K, and with quota output files and
\* processed_count = quota when 0 < quota < K.
Orig_C4_OutputCount ==
    (pc = "done" /\ input_folder_exists /\ LogIndexes(EnvironmentFaults) = {}) =>
        LET K == Cardinality({f \in JsonFiles : SatisfiesAcceptance(entries[f])})
        IN  /\ max_files_to_process >= K =>
                /\ Cardinality(DOMAIN outputs) = K
                /\ processed_count = K
            /\ (0 < max_files_to_process /\ max_files_to_process < K) =>
                /\ Cardinality(DOMAIN outputs) = max_files_to_process
                /\ processed_count = max_files_to_process

(***************************************************************************)
(* C5: one output file per accepted file, none for the others              *)
(***************************************************************************)
\* C5 as stated: a file that was skipped or that errored, at whatever step,
\* has no output file created by the run (at any moment of the run); after
\* the run every converted file has exactly one output file, named with its
\* base name and the .md extension, which is the output file of no other
\* input file.
Orig_C5_OneOutputPerAccepted ==
    /\ \A i \in 1..Len(log) :
          log[i].outcome # "converted" => OutputsOf(log[i].file) = {}
    /\ pc = "done" =>
          \A i \in LogIndexes({"converted"}) :
              /\ OutputsOf(log[i].file) = {BaseName(log[i].file) \o ext_md}
              /\ OutputsOf(log[i].file) \subseteq DOMAIN outputs
              /\ \A j \in LogIndexes({"converted"}) :
                    j # i => OutputsOf(log[j].file) # OutputsOf(log[i].file)

(***************************************************************************)
(* C6: per-file failures                                                   *)
(***************************************************************************)
\* the part of C6 on error isolation: every inspected file is counted once,
\* as converted or as skipped, or not at all when it errored; the loop is
\* left only when the listing is exhausted or the quota is reached
ErrorIsolation ==
    /\ processed_count = Cardinality(LogIndexes({"converted"}))
    /\ skipped_count = Cardinality(LogIndexes({"skipped"}))
    /\ (pc \in {"report", "done"} /\ input_folder_exists) =>
          \/ pos > Len(files)
          \/ processed_count >= max_files_to_process

\* C6 as stated: error isolation as above, and a directory of one malformed
\* file and two accepted files, run with quota 5 and with one error logged,
\* ends with 2 output files and processed_count = 2.
Orig_C6_FailureDoesNotAbort ==
    /\ ErrorIsolation
    /\ ( /\ pc = "done"
         /\ max_files_to_process = 5
         /\ Cardinality(JsonFiles) = 3
         /\ Cardinality({f \in JsonFiles : entries[f] = Malformed}) = 1
         /\ Cardinality({f \in JsonFiles : SatisfiesAcceptance(entries[f])}) = 2
         /\ Cardinality({i \in 1..Len(log) : IsErrorOutcome(log[i].outcome)}) = 1 )
       => /\ Cardinality(DOMAIN outputs) = 2
          /\ processed_count = 2

(***************************************************************************)
(* C7: files that are not accepted                                         *)
(***************************************************************************)
\* C7 as stated: every inspected file whose content parses as JSON and whose
\* decision is not exactly "ACCEPTED" or "REJECTED" (any other value, or no
\* decision field) is logged as skipped and counted once in skipped_count,
\* is not counted in processed_count and has no output file.
Orig_C7_NotAcceptedIsSkipped ==
    LET notAccepted == {i \in 1..Len(log) :
            /\ ParsesAsJson(entries[log[i].file])
            /\ ~SatisfiesAcceptance(entries[log[i].file])}
    IN  /\ \A i \in notAccepted :
              /\ log[i].outcome = "skipped"
              /\ OutputsOf(log[i].file) = {}
        /\ skipped_count = Cardinality(notAccepted)
        /\ processed_count <= Len(log) - Cardinality(notAccepted)
====
